---- MODULE Spec2Model ----
(***************************************************************************)
(* OpenAIService (packages/bytebot-agent/src/openai): the translation of   *)
(* conversation messages to Responses-API input items                       *)
(* (formatMessagesForOpenAI), of response output items to content blocks    *)
(* (formatOpenAIResponse), the generateMessage call around them, and the    *)
(* model-list cache of getAvailableModels.                                  *)
(*                                                                         *)
(* Strings that the code builds or parses (text, arguments, output,         *)
(* image_url) are sequences of lexemes; identifiers the code only copies    *)
(* (ids, names, media types, payloads) are plain strings.                   *)
(***************************************************************************)
EXTENDS Integers, Sequences, FiniteSets, TLC

VARIABLES messages, openaiMessages, output, contentBlocks, error, thrown,
          pc, now, ticks, apiKey, cachedModels, modelsCacheTime, inflight,
          started, requests, ret, stored

vars == <<messages, openaiMessages, output, contentBlocks, error, thrown,
          pc, now, ticks, apiKey, cachedModels, modelsCacheTime, inflight,
          started, requests, ret, stored>>

genVars ==
  <<messages, openaiMessages, output, contentBlocks, error, thrown, pc>>

modelVars == <<now, ticks, apiKey, cachedModels, modelsCacheTime, inflight,
               started, requests, ret, stored>>

(***************************************************************************)
(* Lexemes of a string.                                                    *)
(***************************************************************************)
P(c) == [t |-> "p", v |-> c]
S(s) == [t |-> "s", v |-> s]
N(n) == [t |-> "n", v |-> n]
ST(text) == [t |-> "st", v |-> text]
W(w) == [t |-> "w", v |-> w]
NL(d) == [t |-> "nl", v |-> d]
SP == [t |-> "sp", v |-> 1]

IsP(tok, c) == tok.t = "p" /\ tok.v = c
IsWs(tok) == tok.t \in {"nl", "sp"}

(***************************************************************************)
(* JSON values.  An object keeps its members in insertion order.           *)
(***************************************************************************)
JNull == [k |-> "null", v |-> FALSE]
JBool(b) == [k |-> "bool", v |-> b]
JNum(n) == [k |-> "num", v |-> n]
JStr(s) == [k |-> "str", v |-> s]
\* a string value whose characters are themselves a lexeme sequence
JText(text) == [k |-> "text", v |-> text]
JArr(elems) == [k |-> "arr", v |-> elems]
JObj(members) == [k |-> "obj", v |-> members]

RECURSIVE JSONstringify(_)
RECURSIVE StringifyMembers(_, _)
RECURSIVE StringifyElements(_, _)

StringifyMembers(members, i) ==
  IF i > Len(members) THEN <<>>
  ELSE (IF i > 1 THEN <<P(",")>> ELSE <<>>)
       \o <<S(members[i][1]), P(":")>> \o JSONstringify(members[i][2])
       \o StringifyMembers(members, i + 1)

StringifyElements(elems, i) ==
  IF i > Len(elems) THEN <<>>
  ELSE (IF i > 1 THEN <<P(",")>> ELSE <<>>)
       \o JSONstringify(elems[i])
       \o StringifyElements(elems, i + 1)

\* JSON.stringify(value)
JSONstringify(value) ==
  CASE value.k = "null" -> <<W("null")>>
    [] value.k = "bool" -> <<W(IF value.v THEN "true" ELSE "false")>>
    [] value.k = "num" -> <<N(value.v)>>
    [] value.k = "str" -> <<S(value.v)>>
    [] value.k = "text" -> <<ST(value.v)>>
    [] value.k = "arr" ->
         <<P("[")>> \o StringifyElements(value.v, 1) \o <<P("]")>>
    [] value.k = "obj" ->
         <<P("{")>> \o StringifyMembers(value.v, 1) \o <<P("}")>>

RECURSIVE JSONstringifyPretty(_, _)
RECURSIVE PrettyMembers(_, _, _)
RECURSIVE PrettyElements(_, _, _)

PrettyMembers(members, i, depth) ==
  IF i > Len(members) THEN <<>>
  ELSE (IF i > 1 THEN <<P(",")>> ELSE <<>>)
       \o <<NL(depth), S(members[i][1]), P(":"), SP>>
       \o JSONstringifyPretty(members[i][2], depth)
       \o PrettyMembers(members, i + 1, depth)

PrettyElements(elems, i, depth) ==
  IF i > Len(elems) THEN <<>>
  ELSE (IF i > 1 THEN <<P(",")>> ELSE <<>>)
       \o <<NL(depth)>>
       \o JSONstringifyPretty(elems[i], depth)
       \o PrettyElements(elems, i + 1, depth)

\* JSON.stringify(value, null, 2) at nesting depth `depth`
JSONstringifyPretty(value, depth) ==
  CASE value.k = "arr" ->
         IF value.v = <<>> THEN <<P("["), P("]")>>
         ELSE <<P("[")>> \o PrettyElements(value.v, 1, depth + 1)
              \o <<NL(depth), P("]")>>
    [] value.k = "obj" ->
         IF value.v = <<>> THEN <<P("{"), P("}")>>
         ELSE <<P("{")>> \o PrettyMembers(value.v, 1, depth + 1)
              \o <<NL(depth), P("}")>>
    [] OTHER -> JSONstringify(value)

RECURSIVE SkipWs(_, _)
SkipWs(toks, i) ==
  IF i <= Len(toks) /\ IsWs(toks[i]) THEN SkipWs(toks, i + 1) ELSE i

ParseFail == [ok |-> FALSE, val |-> JNull, next |-> 0]
ParseOk(val, next) == [ok |-> TRUE, val |-> val, next |-> next]

RECURSIVE ParseValue(_, _)
RECURSIVE ParseMembers(_, _, _)
RECURSIVE ParseElements(_, _, _)

ParseMembers(toks, i0, acc) ==
  LET i == SkipWs(toks, i0) IN
  IF i > Len(toks) \/ toks[i].t # "s" THEN ParseFail
  ELSE
    LET c == SkipWs(toks, i + 1) IN
    IF c > Len(toks) \/ ~IsP(toks[c], ":") THEN ParseFail
    ELSE
      LET r == ParseValue(toks, c + 1) IN
      IF ~r.ok THEN ParseFail
      ELSE
        LET j == SkipWs(toks, r.next)
            got == Append(acc, <<toks[i].v, r.val>>)
        IN
        IF j > Len(toks) THEN ParseFail
        ELSE IF IsP(toks[j], ",") THEN ParseMembers(toks, j + 1, got)
        ELSE IF IsP(toks[j], "}") THEN ParseOk(JObj(got), j + 1)
        ELSE ParseFail

ParseElements(toks, i0, acc) ==
  LET r == ParseValue(toks, i0) IN
  IF ~r.ok THEN ParseFail
  ELSE
    LET j == SkipWs(toks, r.next)
        got == Append(acc, r.val)
    IN
    IF j > Len(toks) THEN ParseFail
    ELSE IF IsP(toks[j], ",") THEN ParseElements(toks, j + 1, got)
    ELSE IF IsP(toks[j], "]") THEN ParseOk(JArr(got), j + 1)
    ELSE ParseFail

ParseValue(toks, i0) ==
  LET i == SkipWs(toks, i0) IN
  IF i > Len(toks) THEN ParseFail
  ELSE
    LET tk == toks[i] IN
    CASE tk.t = "n" -> ParseOk(JNum(tk.v), i + 1)
      [] tk.t = "s" -> ParseOk(JStr(tk.v), i + 1)
      [] tk.t = "st" -> ParseOk(JText(tk.v), i + 1)
      [] tk.t = "w" ->
           IF tk.v = "null" THEN ParseOk(JNull, i + 1)
           ELSE IF tk.v = "true" THEN ParseOk(JBool(TRUE), i + 1)
           ELSE IF tk.v = "false" THEN ParseOk(JBool(FALSE), i + 1)
           ELSE ParseFail
      [] tk.t = "p" ->
           IF tk.v = "{" THEN
             LET j == SkipWs(toks, i + 1) IN
             IF j <= Len(toks) /\ IsP(toks[j], "}")
             THEN ParseOk(JObj(<<>>), j + 1)
             ELSE ParseMembers(toks, j, <<>>)
           ELSE IF tk.v = "[" THEN
             LET j == SkipWs(toks, i + 1) IN
             IF j <= Len(toks) /\ IsP(toks[j], "]")
             THEN ParseOk(JArr(<<>>), j + 1)
             ELSE ParseElements(toks, j, <<>>)
           ELSE ParseFail
      [] OTHER -> ParseFail

\* JSON.parse(text): ok is FALSE where JSON.parse throws SyntaxError
JSONparse(text) ==
  LET r == ParseValue(text, 1) IN
  IF r.ok /\ SkipWs(text, r.next) = Len(text) + 1
  THEN [ok |-> TRUE, val |-> r.val]
  ELSE [ok |-> FALSE, val |-> JNull]

(***************************************************************************)
(* Content blocks (@bytebot/shared MessageContentBlock) and messages.      *)
(***************************************************************************)
USER == "USER"
ASSISTANT == "ASSISTANT"
Role == {USER, ASSISTANT}

TextBlock(text) == [type |-> "text", text |-> text]
ToolUseBlock(id, name, input) ==
  [type |-> "tool_use", id |-> id, name |-> name, input |-> input]
ToolResultBlock(tool_use_id, content) ==
  [type |-> "tool_result", tool_use_id |-> tool_use_id, content |-> content]
ThinkingBlock(thinking, signature) ==
  [type |-> "thinking", thinking |-> thinking, signature |-> signature]
ImageBlock(media_type, data) ==
  [type |-> "image",
   source |-> [type |-> "base64", media_type |-> media_type, data |-> data]]
UserActionBlock(content) == [type |-> "user_action", content |-> content]
\* a block whose tag the switch of formatMessagesForOpenAI has no case for
OtherBlock(tag, fields) == [type |-> tag, fields |-> fields]

Message(role, content) == [role |-> role, content |-> content]

isUserActionContentBlock(block) == block.type = "user_action"
isComputerToolUseContentBlock(block) == block.type = "tool_use"
isImageContentBlock(block) == block.type = "image"

RECURSIVE BlockJson(_)
RECURSIVE BlocksJson(_, _)

BlocksJson(blocks, i) ==
  IF i > Len(blocks) THEN <<>>
  ELSE <<BlockJson(blocks[i])>> \o BlocksJson(blocks, i + 1)

\* the JSON value JSON.stringify sees for a content block
BlockJson(block) ==
  CASE block.type = "text" ->
         JObj(<< <<"type", JStr("text")>>,
                 <<"text", JText(block.text)>> >>)
    [] block.type = "tool_use" ->
         JObj(<< <<"type", JStr("tool_use")>>,
                 <<"id", JStr(block.id)>>,
                 <<"name", JStr(block.name)>>,
                 <<"input", block.input>> >>)
    [] block.type = "tool_result" ->
         JObj(<< <<"type", JStr("tool_result")>>,
                 <<"tool_use_id", JStr(block.tool_use_id)>>,
                 <<"content", JArr(BlocksJson(block.content, 1))>> >>)
    [] block.type = "thinking" ->
         JObj(<< <<"type", JStr("thinking")>>,
                 <<"thinking", JStr(block.thinking)>>,
                 <<"signature", JStr(block.signature)>> >>)
    [] block.type = "image" ->
         JObj(<< <<"type", JStr("image")>>,
                 <<"source",
                   JObj(<< <<"type", JStr(block.source.type)>>,
                           <<"media_type", JStr(block.source.media_type)>>,
                           <<"data", JStr(block.source.data)>> >>)>> >>)
    [] block.type = "user_action" ->
         JObj(<< <<"type", JStr("user_action")>>,
                 <<"content", JArr(BlocksJson(block.content, 1))>> >>)
    [] OTHER ->
         JObj(<< <<"type", JStr(block.type)>> >> \o block.fields)

(***************************************************************************)
(* Responses-API items.                                                    *)
(***************************************************************************)
InputText(text) == [type |-> "input_text", text |-> text]
OutputText(text) == [type |-> "output_text", text |-> text]
InputImage(image_url) ==
  [type |-> "input_image", detail |-> "high", image_url |-> image_url]
MessageItem(role, entries) ==
  [type |-> "message", role |-> role, content |-> entries]
FunctionCall(call_id, name, arguments) ==
  [type |-> "function_call", call_id |-> call_id, name |-> name,
   arguments |-> arguments]
FunctionCallOutput(call_id, out) ==
  [type |-> "function_call_output", call_id |-> call_id, output |-> out]
ReasoningItem(id, encrypted_content) ==
  [type |-> "reasoning", id |-> id, encrypted_content |-> encrypted_content,
   summary |-> <<>>]

\* `data:${source.media_type};base64,${source.data}`
DataUrl(source) ==
  <<W("data:"), W(source.media_type), W(";base64,"), W(source.data)>>

\* `User performed action: ${block.name}\n${JSON.stringify(block.input, null, 2)}`
ActionText(block) ==
  <<W("User performed action: "), W(block.name), NL(0)>>
  \o JSONstringifyPretty(block.input, 0)

\* FormatUserActionChild sending the operator's action as a function call
FormatUserActionChild_AsCall(block) ==
  IF isComputerToolUseContentBlock(block)
  THEN <<FunctionCall(block.id, block.name, JSONstringify(block.input))>>
  ELSE IF isImageContentBlock(block)
  THEN <<MessageItem("user", <<InputImage(DataUrl(block.source))>>)>>
  ELSE <<>>

\* body of the loop over the flattened children of UserAction blocks
FormatUserActionChild(block) ==
  IF isComputerToolUseContentBlock(block)
  THEN <<MessageItem("user", <<InputText(ActionText(block))>>)>>
  ELSE IF isImageContentBlock(block)
  THEN <<MessageItem("user", <<InputImage(DataUrl(block.source))>>)>>
  ELSE <<>>

\* FormatToolResultContent with the placeholder output left out
FormatToolResultContent_NoPlaceholder(tool_use_id, content) ==
  (IF content.type = "text"
   THEN <<FunctionCallOutput(tool_use_id, content.text)>>
   ELSE <<>>)
  \o
  (IF content.type = "image"
   THEN <<MessageItem("user", <<InputImage(DataUrl(content.source))>>)>>
   ELSE <<>>)

\* body of toolResult.content.forEach
FormatToolResultContent(tool_use_id, content) ==
  (IF content.type = "text"
   THEN <<FunctionCallOutput(tool_use_id, content.text)>>
   ELSE <<>>)
  \o
  (IF content.type = "image"
   THEN <<FunctionCallOutput(tool_use_id, <<W("screenshot")>>),
          MessageItem("user", <<InputImage(DataUrl(content.source))>>)>>
   ELSE <<>>)

RECURSIVE FormatToolResult(_, _, _)
FormatToolResult(tool_use_id, content, i) ==
  IF i > Len(content) THEN <<>>
  ELSE FormatToolResultContent(tool_use_id, content[i])
       \o FormatToolResult(tool_use_id, content, i + 1)

\* FormatBlock with the tool name taken for the call id
FormatBlock_NameAsId(role, block) ==
  CASE block.type = "text" ->
         IF role = USER
         THEN <<MessageItem("user", <<InputText(block.text)>>)>>
         ELSE <<MessageItem("assistant", <<OutputText(block.text)>>)>>
    [] block.type = "tool_use" ->
         IF role = ASSISTANT
         THEN <<FunctionCall(block.name, block.name,
                             JSONstringify(block.input))>>
         ELSE <<>>
    [] block.type = "thinking" ->
         <<ReasoningItem(block.signature, block.thinking)>>
    [] block.type = "tool_result" ->
         FormatToolResult(block.tool_use_id, block.content, 1)
    [] OTHER ->
         <<MessageItem("user",
                       <<InputText(JSONstringify(BlockJson(block)))>>)>>

\* switch (block.type) of the mixed-content path
FormatBlock(role, block) ==
  CASE block.type = "text" ->
         IF role = USER
         THEN <<MessageItem("user", <<InputText(block.text)>>)>>
         ELSE <<MessageItem("assistant", <<OutputText(block.text)>>)>>
    [] block.type = "tool_use" ->
         IF role = ASSISTANT
         THEN <<FunctionCall(block.id, block.name,
                             JSONstringify(block.input))>>
         ELSE <<>>
    [] block.type = "thinking" ->
         <<ReasoningItem(block.signature, block.thinking)>>
    [] block.type = "tool_result" ->
         FormatToolResult(block.tool_use_id, block.content, 1)
    [] OTHER ->
         <<MessageItem("user",
                       <<InputText(JSONstringify(BlockJson(block)))>>)>>

RECURSIVE FlatMapContent(_, _)
\* messageContentBlocks.flatMap((block) => block.content)
FlatMapContent(blocks, i) ==
  IF i > Len(blocks) THEN <<>>
  ELSE blocks[i].content \o FlatMapContent(blocks, i + 1)

RECURSIVE FormatUserActionChildren(_, _)
FormatUserActionChildren(children, i) ==
  IF i > Len(children) THEN <<>>
  ELSE FormatUserActionChild(children[i])
       \o FormatUserActionChildren(children, i + 1)

RECURSIVE FormatBlocks(_, _, _)
FormatBlocks(role, blocks, i) ==
  IF i > Len(blocks) THEN <<>>
  ELSE FormatBlock(role, blocks[i]) \o FormatBlocks(role, blocks, i + 1)

\* messageContentBlocks.every((block) => isUserActionContentBlock(block))
EveryUserAction(blocks) ==
  \A i \in 1..Len(blocks) : isUserActionContentBlock(blocks[i])

\* body of the loop over messages
FormatMessage(message) ==
  IF EveryUserAction(message.content)
  THEN FormatUserActionChildren(FlatMapContent(message.content, 1), 1)
  ELSE FormatBlocks(message.role, message.content, 1)

RECURSIVE formatMessagesForOpenAI(_)
formatMessagesForOpenAI(msgs) ==
  IF msgs = <<>> THEN <<>>
  ELSE FormatMessage(Head(msgs)) \o formatMessagesForOpenAI(Tail(msgs))

(***************************************************************************)
(* formatOpenAIResponse                                                    *)
(***************************************************************************)
Refusal(text) == [type |-> "refusal", refusal |-> text]
\* an output item the code reads no field of but its type
OtherItem(tag, fields) == [type |-> tag, fields |-> fields]

\* the JSON value JSON.stringify sees for such an item
ItemJson(item) == JObj(<< <<"type", JStr(item.type)>> >> \o item.fields)

ReasoningTags ==
  {"file_search_call", "web_search_call", "computer_call", "reasoning"}
UnsupportedTags ==
  {"image_generation_call", "code_interpreter_call", "local_shell_call",
   "mcp_call", "mcp_list_tools", "mcp_approval_request"}
HandledTags ==
  {"message", "function_call"} \cup ReasoningTags \cup UnsupportedTags

\* if (reasoning.encrypted_content)
HasEncryptedContent(item) ==
  /\ "encrypted_content" \in DOMAIN item
  /\ item.encrypted_content # ""

\* FromContent testing the value of text instead of its presence
FromContent_Truthy(content) ==
  IF "text" \in DOMAIN content /\ content.text # <<>>
  THEN <<TextBlock(content.text)>>
  ELSE IF "refusal" \in DOMAIN content
  THEN <<TextBlock(<<W("Refusal: ")>> \o content.refusal)>>
  ELSE <<>>

\* body of the loop over message.content
FromContent(content) ==
  IF "text" \in DOMAIN content
  THEN <<TextBlock(content.text)>>
  ELSE IF "refusal" \in DOMAIN content
  THEN <<TextBlock(<<W("Refusal: ")>> \o content.refusal)>>
  ELSE <<>>

RECURSIVE FromContents(_, _)
FromContents(entries, i) ==
  IF i > Len(entries) THEN <<>>
  ELSE FromContent(entries[i]) \o FromContents(entries, i + 1)

Blocks(blocks) == [threw |-> FALSE, blocks |-> blocks]
Throws == [threw |-> TRUE, blocks |-> <<>>]

\* FromFunctionCall recovering from a parse failure with a null input
FromFunctionCall_NullInput(item) ==
  LET parsed == JSONparse(item.arguments) IN
  Blocks(<<ToolUseBlock(item.call_id, item.name,
                        IF parsed.ok THEN parsed.val ELSE JNull)>>)

\* case 'function_call'
FromFunctionCall(item) ==
  LET parsed == JSONparse(item.arguments) IN
  IF parsed.ok
  THEN Blocks(<<ToolUseBlock(item.call_id, item.name, parsed.val)>>)
  ELSE Throws

\* FromReasoning with the two fields of the Thinking block exchanged
FromReasoning_Swapped(item) ==
  IF HasEncryptedContent(item)
  THEN Blocks(<<ThinkingBlock(item.id, item.encrypted_content)>>)
  ELSE Blocks(<<>>)

\* case 'file_search_call' ... case 'reasoning'
FromReasoning(item) ==
  IF HasEncryptedContent(item)
  THEN Blocks(<<ThinkingBlock(item.encrypted_content, item.id)>>)
  ELSE Blocks(<<>>)

\* FromUnsupported pushing nothing
FromUnsupported_Dropped(item) == Blocks(<<>>)

\* case 'image_generation_call' ... case 'mcp_approval_request'
FromUnsupported(item) == Blocks(<<TextBlock(JSONstringify(ItemJson(item)))>>)

\* FromUnknown pushing the type tag alone
FromUnknown_TagOnly(item) == Blocks(<<TextBlock(<<W(item.type)>>)>>)

\* default
FromUnknown(item) == Blocks(<<TextBlock(JSONstringify(ItemJson(item)))>>)

\* switch (item.type): the blocks pushed for one item, or the throw
FromItem(item) ==
  CASE item.type = "message" -> Blocks(FromContents(item.content, 1))
    [] item.type = "function_call" -> FromFunctionCall(item)
    [] item.type \in ReasoningTags -> FromReasoning(item)
    [] item.type \in UnsupportedTags -> FromUnsupported(item)
    [] OTHER -> FromUnknown(item)

RECURSIVE FromItems(_, _, _)
FromItems(response, i, acc) ==
  IF i > Len(response) THEN Blocks(acc)
  ELSE LET r == FromItem(response[i]) IN
       IF r.threw THEN Throws
       ELSE FromItems(response, i + 1, acc \o r.blocks)

formatOpenAIResponse(response) == FromItems(response, 1, <<>>)

(***************************************************************************)
(* Bounded inputs.  The size of a block is one plus the number of entries   *)
(* it wraps, of a message one plus the sizes of its blocks, of a            *)
(* conversation the sum of the sizes of its messages.                       *)
(***************************************************************************)
MaxSize == 4

Hello == <<W("hello")>>
ClickInput == JObj(<< <<"x", JNum(1)>>, <<"y", JNum(2)>> >>)
TypeInput == JObj(<< <<"text", JStr("hi")>>, <<"opts", JObj(<<>>)>> >>)

SampleText == TextBlock(Hello)
SampleImage == ImageBlock("image/png", "AAA=")
SampleClick == ToolUseBlock("call_1", "computer_click_mouse", ClickInput)
SampleType == ToolUseBlock("call_2", "computer_type_text", TypeInput)

\* blocks that wrap nothing
FlatBlocks ==
  {SampleText, TextBlock(<<>>), SampleImage, SampleClick, SampleType,
   ThinkingBlock("gAAAA", "rs_1"), ThinkingBlock("", "rs_2"),
   OtherBlock("redacted_thinking", << <<"data", JStr("opaque")>> >>)}

\* entries of a ToolResult, children of a UserAction
ResultEntries == {SampleText, SampleImage, ThinkingBlock("gAAAA", "rs_1")}
ActionChildren == {SampleClick, SampleImage, SampleText}

\* blocks that wrap entries, still empty
EmptyWrappers == {ToolResultBlock("call_1", <<>>), UserActionBlock(<<>>)}

IsWrapper(block) == block.type \in {"tool_result", "user_action"}

BlockSize(block) == 1 + (IF IsWrapper(block) THEN Len(block.content) ELSE 0)

RECURSIVE ContentSize(_)
ContentSize(blocks) ==
  IF blocks = <<>> THEN 0
  ELSE BlockSize(Head(blocks)) + ContentSize(Tail(blocks))

RECURSIVE ConversationSize(_)
ConversationSize(msgs) ==
  IF msgs = <<>> THEN 0
  ELSE 1 + ContentSize(Head(msgs).content) + ConversationSize(Tail(msgs))

(***************************************************************************)
(* getAvailableModels.  A model id is the sequence of its parts between     *)
(* dashes; a title is the sequence of its words.                            *)
(***************************************************************************)
CACHE_DURATION == 3600000

ModelEntry(name, title, contextWindow) ==
  [provider |-> "openai", name |-> name, title |-> title,
   contextWindow |-> contextWindow]

OPENAI_MODELS ==
  <<ModelEntry(<<"gpt", "4o">>, <<"GPT-4o">>, 128000),
    ModelEntry(<<"gpt", "4o", "mini">>, <<"GPT-4o", "Mini">>, 128000),
    ModelEntry(<<"gpt", "4", "turbo">>, <<"GPT-4", "Turbo">>, 128000),
    ModelEntry(<<"gpt", "4">>, <<"GPT-4">>, 8192)>>

\* the parts that end with "gpt", and those that start with the given text
EndsWithGpt == {"gpt", "chatgpt"}
StartsWith35 == {"3.5"}
StartsWith4o == {"4o"}
StartsWith41 == {"4.1"}
StartsWith4 == {"4", "4o", "4.1"}
StartsWith5 == {"5"}
StartsWithDigit == {"3.5", "4", "4o", "4.1", "5", "3"}

\* id.includes('gpt-' + what starts a part of `starts`)
IncludesGpt(id, starts) ==
  \E i \in 1..(Len(id) - 1) : id[i] \in EndsWithGpt /\ id[i + 1] \in starts

\* id.includes(part), for a text that holds no dash
IncludesPart(id, part) == \E i \in 1..Len(id) : id[i] = part

\* the filter of getAvailableModels
IsVisionChatModel(id) ==
  /\ Len(id) > 1 /\ id[1] = "gpt"
  /\ ~(id[1] = "gpt" /\ id[2] \in StartsWith35)
  /\ ~IncludesPart(id, "instruct")

Capitalize(part) ==
  CASE part = "mini" -> "Mini"
    [] part = "turbo" -> "Turbo"
    [] part = "instruct" -> "Instruct"
    [] part = "latest" -> "Latest"
    [] part = "chatgpt" -> "Chatgpt"
    [] OTHER -> part

formatModelTitle(modelId) ==
  [i \in 1..Len(modelId) |->
     IF modelId[i] = "gpt" THEN "GPT"
     ELSE IF modelId[i] \in StartsWithDigit THEN modelId[i]
     ELSE Capitalize(modelId[i])]

getContextWindow(modelId) ==
  IF IncludesGpt(modelId, StartsWith4o) THEN 128000
  ELSE IF \E i \in 1..(Len(modelId) - 2) :
            /\ modelId[i] \in EndsWithGpt
            /\ modelId[i + 1] = "4"
            /\ modelId[i + 2] = "turbo"
  THEN 128000
  ELSE IF IncludesGpt(modelId, StartsWith4) THEN 8192
  ELSE IF IncludesPart(modelId, "o1") THEN 128000
  ELSE IF IncludesPart(modelId, "o3") THEN 200000
  ELSE IF IncludesGpt(modelId, StartsWith35) THEN 16385
  ELSE 4096

\* priority(name) of the sort
Priority(name) ==
  IF IncludesGpt(name, StartsWith4o) THEN 0
  ELSE IF IncludesGpt(name, StartsWith41) THEN 1
  ELSE IF IncludesGpt(name, StartsWith4) THEN 2
  ELSE IF IncludesGpt(name, StartsWith5) THEN 3
  ELSE 4

RECURSIVE FilterMap(_)
\* models.filter(...).map(...)
FilterMap(models) ==
  IF models = <<>> THEN <<>>
  ELSE (IF IsVisionChatModel(Head(models))
        THEN <<ModelEntry(Head(models), formatModelTitle(Head(models)),
                          getContextWindow(Head(models)))>>
        ELSE <<>>)
       \o FilterMap(Tail(models))

\* one entry put after the entries of a sorted list that do not come after it
InsertByPriority(sorted, entry) ==
  LET k == Cardinality({i \in 1..Len(sorted) :
                          Priority(sorted[i].name) <= Priority(entry.name)})
  IN SubSeq(sorted, 1, k) \o <<entry>> \o SubSeq(sorted, k + 1, Len(sorted))

RECURSIVE SortByPriority(_, _)
\* .sort((a, b) => priority(a.name) - priority(b.name)), a stable sort
SortByPriority(entries, sorted) ==
  IF entries = <<>> THEN sorted
  ELSE SortByPriority(Tail(entries), InsertByPriority(sorted, Head(entries)))

\* availableModels of a fetched list
AvailableModels(models) == SortByPriority(FilterMap(models), <<>>)

\* cachedModels: null, or a list
NullModels == [null |-> TRUE, list |-> <<>>]
SomeModels(list) == [null |-> FALSE, list |-> list]

\* this.cachedModels && now - this.modelsCacheTime < this.CACHE_DURATION
CacheValid(at) ==
  /\ ~cachedModels.null
  /\ at - modelsCacheTime < CACHE_DURATION

\* ShouldCache keeping whatever the filter left
ShouldCache_Always(availableModels) == TRUE

\* availableModels.length > 0
ShouldCache(availableModels) == Len(availableModels) > 0

MaxCalls == 3
MaxTicks == 3

\* what openai.models.list() may resolve to
ApiModelLists ==
  {<<>>,
   << <<"gpt", "3.5", "turbo">>, <<"o1">>, <<"text", "embedding", "3">> >>,
   << <<"gpt", "4">>, <<"gpt", "4o", "mini">> >>,
   << <<"gpt", "5">>, <<"gpt", "3.5", "turbo", "instruct">>,
      <<"gpt", "4.1">>, <<"chatgpt", "4o", "latest">> >>}

Returned(n, outcome, value) == [n |-> n, outcome |-> outcome, value |-> value]

\* getAvailableModels called while the cache is valid
CallCached ==
  /\ started < MaxCalls
  /\ CacheValid(now)
  /\ started' = started + 1
  /\ ret' = Returned(started + 1, "cached", cachedModels.list)
  /\ UNCHANGED <<now, ticks, apiKey, cachedModels, modelsCacheTime, inflight,
                 requests, stored>>
  /\ UNCHANGED genVars

\* getAvailableModels called without an API key
CallNoKey ==
  /\ started < MaxCalls
  /\ ~CacheValid(now)
  /\ ~apiKey
  /\ started' = started + 1
  /\ ret' = Returned(started + 1, "no_key", OPENAI_MODELS)
  /\ UNCHANGED <<now, ticks, apiKey, cachedModels, modelsCacheTime, inflight,
                 requests, stored>>
  /\ UNCHANGED genVars

\* getAvailableModels called: openai.models.list() is awaited
CallFetch ==
  /\ started < MaxCalls
  /\ ~CacheValid(now)
  /\ apiKey
  /\ started' = started + 1
  /\ requests' = requests + 1
  /\ inflight' = inflight \cup {[id |-> started + 1, now |-> now]}
  /\ UNCHANGED <<now, ticks, apiKey, cachedModels, modelsCacheTime, ret,
                 stored>>
  /\ UNCHANGED genVars

\* openai.models.list() resolves: the rest of the try block
FetchResolve ==
  \E call \in inflight, models \in ApiModelLists :
    LET availableModels == AvailableModels(models) IN
    /\ inflight' = inflight \ {call}
    /\ IF ShouldCache(availableModels)
       THEN /\ cachedModels' = SomeModels(availableModels)
            /\ modelsCacheTime' = call.now
            /\ stored' = [start |-> call.now, fetched |-> models]
            /\ ret' = Returned(call.id, "fetched", availableModels)
       ELSE /\ ret' = Returned(call.id, "no_models", OPENAI_MODELS)
            /\ UNCHANGED <<cachedModels, modelsCacheTime, stored>>
    /\ UNCHANGED <<now, ticks, apiKey, started, requests>>
    /\ UNCHANGED genVars

\* openai.models.list() rejects: the catch block
FetchReject ==
  \E call \in inflight :
    /\ inflight' = inflight \ {call}
    /\ ret' = Returned(call.id, "fetch_error", OPENAI_MODELS)
    /\ UNCHANGED <<now, ticks, apiKey, cachedModels, modelsCacheTime,
                   started, requests, stored>>
    /\ UNCHANGED genVars

\* Date.now() moves on
Tick ==
  /\ ticks < MaxTicks
  /\ ticks' = ticks + 1
  /\ \E d \in {1, CACHE_DURATION - 1} : now' = now + d
  /\ UNCHANGED <<apiKey, cachedModels, modelsCacheTime, inflight, started,
                 requests, ret, stored>>
  /\ UNCHANGED genVars

(***************************************************************************)
(* generateMessage                                                         *)
(***************************************************************************)
NoModelsState ==
  /\ now = 0
  /\ ticks = 0
  /\ apiKey = TRUE
  /\ cachedModels = NullModels
  /\ modelsCacheTime = 0
  /\ inflight = {}
  /\ started = 0
  /\ requests = 0
  /\ ret = Returned(0, "none", <<>>)
  /\ stored = [start |-> 0, fetched |-> <<>>]

NoCall ==
  /\ openaiMessages = <<>>
  /\ output = <<>>
  /\ contentBlocks = <<>>
  /\ error = "none"
  /\ thrown = "none"
  /\ pc = "start"

\* generateMessage up to the await: the request is built and sent
Generate ==
  /\ pc = "start"
  /\ openaiMessages' = formatMessagesForOpenAI(messages)
  /\ pc' = "awaiting"
  /\ UNCHANGED <<messages, output, contentBlocks, error, thrown>>
  /\ UNCHANGED modelVars

\* the caller's history grows by an empty message
AppendMessage ==
  /\ pc = "start"
  /\ ConversationSize(messages) < MaxSize
  /\ \E role \in Role : messages' = Append(messages, Message(role, <<>>))
  /\ UNCHANGED <<openaiMessages, output, contentBlocks, error, thrown, pc>>
  /\ UNCHANGED modelVars

\* the last message of the history grows by a block
AppendBlock ==
  /\ pc = "start"
  /\ messages # <<>>
  /\ ConversationSize(messages) < MaxSize
  /\ \E block \in FlatBlocks \cup EmptyWrappers :
       messages' = [messages EXCEPT ![Len(messages)].content = Append(@, block)]
  /\ UNCHANGED <<openaiMessages, output, contentBlocks, error, thrown, pc>>
  /\ UNCHANGED modelVars

\* the last block of the history, a ToolResult or a UserAction, grows by an
\* entry
AppendEntry ==
  /\ pc = "start"
  /\ messages # <<>>
  /\ ConversationSize(messages) < MaxSize
  /\ LET last == messages[Len(messages)].content IN
     /\ last # <<>>
     /\ IsWrapper(last[Len(last)])
     /\ \E entry \in (IF last[Len(last)].type = "tool_result"
                      THEN ResultEntries ELSE ActionChildren) :
          messages' =
            [messages EXCEPT
               ![Len(messages)].content[Len(last)].content = Append(@, entry)]
  /\ UNCHANGED <<openaiMessages, output, contentBlocks, error, thrown, pc>>
  /\ UNCHANGED modelVars

InitToWire ==
  /\ messages = <<>>
  /\ NoCall
  /\ NoModelsState

NextToWire == AppendMessage \/ AppendBlock \/ AppendEntry \/ Generate

SpecToWire == InitToWire /\ [][NextToWire]_vars

(***************************************************************************)
(* Responses of the provider.  The size of an item is one plus the number   *)
(* of content entries it holds.                                             *)
(***************************************************************************)
MaxOut == 3

NotJson == <<W("not"), SP, W("json")>>
Truncated == <<P("{"), S("x"), P(":")>>

FlatItems ==
  {FunctionCall("call_1", "computer_click_mouse", JSONstringify(ClickInput)),
   FunctionCall("call_2", "computer_type_text", NotJson),
   FunctionCall("call_3", "computer_click_mouse", Truncated),
   ReasoningItem("rs_1", "gAAAA"),
   [type |-> "reasoning", id |-> "rs_2", summary |-> <<>>],
   [type |-> "computer_call", id |-> "cu_1", call_id |-> "call_4"],
   OtherItem("mcp_call", << <<"id", JStr("mcp_1")>>,
                            <<"name", JStr("search")>> >>),
   OtherItem("custom_tool_call", << <<"call_id", JStr("call_5")>>,
                                    <<"input", JStr("ls")>>,
                                    <<"meta", JObj(<< <<"n", JNum(3)>> >>)>> >>)}

OutputEntries == {OutputText(Hello), Refusal(<<W("no")>>)}

ItemsOfSize(n) ==
  (IF n = 1 THEN FlatItems ELSE {})
  \cup {MessageItem("assistant", c) : c \in [1..(n - 1) -> OutputEntries]}

RECURSIVE ResponsesOfSize(_)
ResponsesOfSize(n) ==
  IF n = 0 THEN {<<>>}
  ELSE UNION {{<<it>> \o rest : it \in ItemsOfSize(k),
                                rest \in ResponsesOfSize(n - k)} : k \in 1..n}

Responses == UNION {ResponsesOfSize(n) : n \in 0..MaxOut}

SampleConversations ==
  {<<>>,
   <<Message(USER, <<SampleText>>)>>,
   <<Message(USER, <<SampleText>>),
     Message(ASSISTANT, <<ThinkingBlock("gAAAA", "rs_1"), SampleClick>>),
     Message(USER, <<ToolResultBlock("call_1", <<SampleImage>>)>>)>>}

\* Catch turning every failure into the interrupt
Catch_All(raised) == "BytebotAgentInterrupt"

\* catch (error): what generateMessage throws for what was raised inside
Catch(raised) ==
  IF raised = "APIUserAbortError" THEN "BytebotAgentInterrupt" ELSE raised

\* the request resolves: generateMessage translates response.output
Respond ==
  /\ pc = "awaiting"
  /\ \E out \in Responses :
       LET r == formatOpenAIResponse(out) IN
       /\ output' = out
       /\ IF r.threw
          THEN /\ error' = "SyntaxError"
               /\ thrown' = Catch("SyntaxError")
               /\ contentBlocks' = <<>>
               /\ pc' = "thrown"
          ELSE /\ contentBlocks' = r.blocks
               /\ pc' = "returned"
               /\ UNCHANGED <<error, thrown>>
  /\ UNCHANGED <<messages, openaiMessages>>
  /\ UNCHANGED modelVars

\* the caller aborts the request through the signal
Abort ==
  /\ pc = "awaiting"
  /\ error' = "APIUserAbortError"
  /\ thrown' = Catch("APIUserAbortError")
  /\ pc' = "thrown"
  /\ UNCHANGED <<messages, openaiMessages, output, contentBlocks>>
  /\ UNCHANGED modelVars

\* the provider rejects the request
ApiError ==
  /\ pc = "awaiting"
  /\ error' = "APIError"
  /\ thrown' = Catch("APIError")
  /\ pc' = "thrown"
  /\ UNCHANGED <<messages, openaiMessages, output, contentBlocks>>
  /\ UNCHANGED modelVars

InitModels ==
  /\ messages = <<>>
  /\ NoCall
  /\ now = 0
  /\ ticks = 0
  /\ apiKey \in BOOLEAN
  /\ cachedModels = NullModels
  /\ modelsCacheTime = 0
  /\ inflight = {}
  /\ started = 0
  /\ requests = 0
  /\ ret = Returned(0, "none", <<>>)
  /\ stored = [start |-> 0, fetched |-> <<>>]

NextModels ==
  CallCached \/ CallNoKey \/ CallFetch \/ FetchResolve \/ FetchReject \/ Tick

SpecModels == InitModels /\ [][NextModels]_vars

Init ==
  /\ messages \in SampleConversations
  /\ NoCall
  /\ NoModelsState

Next == Generate \/ Respond \/ Abort \/ ApiError

Spec == Init /\ [][Next]_vars

(***************************************************************************)
(* Claims about formatMessagesForOpenAI, under SpecToWire.                  *)
(***************************************************************************)
Sent == pc = "awaiting"

\* positions of the top-level blocks of the messages that take the
\* mixed-content path
MixedMessages ==
  {mi \in 1..Len(messages) :
     \E j \in 1..Len(messages[mi].content) :
       messages[mi].content[j].type # "user_action"}

MixedBlocks ==
  UNION {{<<mi, bi>> : bi \in 1..Len(messages[mi].content)} :
           mi \in MixedMessages}

\* the messages whose top-level blocks are all UserAction blocks
UserActionMessages == (1..Len(messages)) \ MixedMessages

BlockAt(pos) == messages[pos[1]].content[pos[2]]
RoleAt(pos) == messages[pos[1]].role

\* the items of the request that lie between what the blocks before and
\* the blocks after position pos have emitted
EmittedFor(pos) ==
  LET m == messages[pos[1]]
      before ==
        Len(formatMessagesForOpenAI(SubSeq(messages, 1, pos[1] - 1)))
        + Len(FormatBlocks(m.role, SubSeq(m.content, 1, pos[2] - 1), 1))
      after ==
        Len(FormatBlocks(m.role,
                         SubSeq(m.content, pos[2] + 1, Len(m.content)), 1))
        + Len(formatMessagesForOpenAI(
                SubSeq(messages, pos[1] + 1, Len(messages))))
  IN SubSeq(openaiMessages, before + 1, Len(openaiMessages) - after)

\* the items of the request emitted for message mi
EmittedForMessage(mi) ==
  LET before == Len(formatMessagesForOpenAI(SubSeq(messages, 1, mi - 1)))
      after == Len(formatMessagesForOpenAI(
                     SubSeq(messages, mi + 1, Len(messages))))
  IN SubSeq(openaiMessages, before + 1, Len(openaiMessages) - after)

IsFunctionCallOutput(item, call_id, out) ==
  /\ item.type = "function_call_output"
  /\ item.call_id = call_id
  /\ item.output = out

IsUserImage(item, source) ==
  /\ item.type = "message"
  /\ item.role = "user"
  /\ Len(item.content) = 1
  /\ item.content[1].type = "input_image"
  /\ item.content[1].image_url
       = <<W("data:"), W(source.media_type), W(";base64,"), W(source.data)>>

RECURSIVE MatchesToolResult(_, _, _, _, _)
\* items from position p on are exactly what entries i.. of a ToolResult give
MatchesToolResult(items, p, id, entries, i) ==
  IF i > Len(entries) THEN p = Len(items) + 1
  ELSE IF entries[i].type = "text" THEN
    /\ p <= Len(items)
    /\ IsFunctionCallOutput(items[p], id, entries[i].text)
    /\ MatchesToolResult(items, p + 1, id, entries, i + 1)
  ELSE IF entries[i].type = "image" THEN
    /\ p + 1 <= Len(items)
    /\ IsFunctionCallOutput(items[p], id, <<W("screenshot")>>)
    /\ IsUserImage(items[p + 1], entries[i].source)
    /\ MatchesToolResult(items, p + 2, id, entries, i + 1)
  ELSE MatchesToolResult(items, p, id, entries, i + 1)

\* C1: for every ToolResult block of a message that is not made only of
\* UserAction blocks, the request holds, for its content entries in order,
\* one function_call_output (call_id = tool_use_id, output = the text) per
\* Text entry and, per Image entry, a function_call_output with output
\* "screenshot" followed by a user message whose input_image url is
\* "data:" + media_type + ";base64," + data; and nothing else.
C1_ToolResultItems ==
  Sent =>
    \A pos \in MixedBlocks :
      BlockAt(pos).type = "tool_result" =>
        MatchesToolResult(EmittedFor(pos), 1, BlockAt(pos).tool_use_id,
                          BlockAt(pos).content, 1)

\* a ToolResult with an Image entry followed by a Text entry has been sent
C1_Witness ==
  /\ Sent
  /\ \E pos \in MixedBlocks :
       /\ BlockAt(pos).type = "tool_result"
       /\ Len(BlockAt(pos).content) = 2
       /\ BlockAt(pos).content[1].type = "image"
       /\ BlockAt(pos).content[2].type = "text"
       /\ Len(EmittedFor(pos)) = 3

RECURSIVE AllChildren(_, _)
\* the children of the UserAction blocks, in order
AllChildren(blocks, i) ==
  IF i > Len(blocks) THEN <<>>
  ELSE blocks[i].content \o AllChildren(blocks, i + 1)

IsNarratedAction(item, child) ==
  /\ item.type = "message"
  /\ item.role = "user"
  /\ Len(item.content) = 1
  /\ item.content[1].type = "input_text"
  /\ LET text == item.content[1].text IN
     /\ Len(text) > 3
     /\ SubSeq(text, 1, 3)
          = <<W("User performed action: "), W(child.name), NL(0)>>
     /\ JSONparse(SubSeq(text, 4, Len(text)))
          = [ok |-> TRUE, val |-> child.input]

RECURSIVE MatchesChildren(_, _, _, _)
\* items from position p on are exactly what children i.. give
MatchesChildren(items, p, children, i) ==
  IF i > Len(children) THEN p = Len(items) + 1
  ELSE IF children[i].type = "tool_use" THEN
    /\ p <= Len(items)
    /\ IsNarratedAction(items[p], children[i])
    /\ MatchesChildren(items, p + 1, children, i + 1)
  ELSE IF children[i].type = "image" THEN
    /\ p <= Len(items)
    /\ IsUserImage(items[p], children[i].source)
    /\ MatchesChildren(items, p + 1, children, i + 1)
  ELSE MatchesChildren(items, p, children, i + 1)

RECURSIVE CountFunctionCalls(_)
CountFunctionCalls(items) ==
  IF items = <<>> THEN 0
  ELSE (IF Head(items).type = "function_call" THEN 1 ELSE 0)
       + CountFunctionCalls(Tail(items))

RECURSIVE CountToolUse(_)
CountToolUse(blocks) ==
  IF blocks = <<>> THEN 0
  ELSE (IF Head(blocks).type = "tool_use" THEN 1 ELSE 0)
       + CountToolUse(Tail(blocks))

RECURSIVE CountAssistantToolUse(_)
\* the ToolUse blocks at the top level of the ASSISTANT messages
CountAssistantToolUse(msgs) ==
  IF msgs = <<>> THEN 0
  ELSE (IF Head(msgs).role = ASSISTANT
        THEN CountToolUse(Head(msgs).content) ELSE 0)
       + CountAssistantToolUse(Tail(msgs))

\* C2: for a message whose top-level blocks are all UserAction blocks the
\* request holds, in the order of the flattened children, one user text
\* item narrating the action per ToolUse child and one user image item per
\* Image child, and nothing for any other child; and the function_call
\* items of a request are as many as the ToolUse blocks at the top level of
\* ASSISTANT messages, so none comes from a ToolUse wrapped in a UserAction.
C2_UserActionItems ==
  Sent =>
    /\ \A mi \in UserActionMessages :
         MatchesChildren(EmittedForMessage(mi), 1,
                         AllChildren(messages[mi].content, 1), 1)
    /\ CountFunctionCalls(openaiMessages) = CountAssistantToolUse(messages)

\* a UserAction wrapping a ToolUse and an Image has been sent
C2_Witness ==
  /\ Sent
  /\ \E mi \in UserActionMessages :
       /\ Len(messages[mi].content) = 1
       /\ Len(messages[mi].content[1].content) = 2
       /\ messages[mi].content[1].content[1].type = "tool_use"
       /\ messages[mi].content[1].content[2].type = "image"
       /\ Len(EmittedForMessage(mi)) = 2

\* C7: a ToolUse block at the top level of an ASSISTANT message gives
\* exactly one function_call item with call_id = id, the same name and
\* arguments that parse back to input, and formatOpenAIResponse of that
\* item gives exactly that ToolUse block again.
C7_ToolUseRoundTrip ==
  Sent =>
    \A pos \in MixedBlocks :
      (BlockAt(pos).type = "tool_use" /\ RoleAt(pos) = ASSISTANT) =>
        LET items == EmittedFor(pos) IN
        /\ Len(items) = 1
        /\ items[1].type = "function_call"
        /\ items[1].call_id = BlockAt(pos).id
        /\ items[1].name = BlockAt(pos).name
        /\ JSONparse(items[1].arguments)
             = [ok |-> TRUE, val |-> BlockAt(pos).input]
        /\ formatOpenAIResponse(items)
             = [threw |-> FALSE, blocks |-> <<BlockAt(pos)>>]

\* an ASSISTANT message with a ToolUse between two other blocks has been sent
C7_Witness ==
  /\ Sent
  /\ \E pos \in MixedBlocks :
       /\ BlockAt(pos).type = "tool_use"
       /\ RoleAt(pos) = ASSISTANT
       /\ pos[2] = 2
       /\ Len(messages[pos[1]].content) = 3
       /\ Len(EmittedFor(pos)) = 1

\* C8: a Text block gives exactly one message item, role user with one
\* input_text entry in a USER message and role assistant with one
\* output_text entry in an ASSISTANT message, and formatOpenAIResponse of
\* that item gives exactly one Text block with the original text.
C8_TextRoundTrip ==
  Sent =>
    \A pos \in MixedBlocks :
      BlockAt(pos).type = "text" =>
        LET items == EmittedFor(pos) IN
        /\ Len(items) = 1
        /\ items[1].type = "message"
        /\ Len(items[1].content) = 1
        /\ items[1].content[1].text = BlockAt(pos).text
        /\ RoleAt(pos) = USER =>
             /\ items[1].role = "user"
             /\ items[1].content[1].type = "input_text"
        /\ RoleAt(pos) = ASSISTANT =>
             /\ items[1].role = "assistant"
             /\ items[1].content[1].type = "output_text"
        /\ formatOpenAIResponse(items)
             = [threw |-> FALSE, blocks |-> <<TextBlock(BlockAt(pos).text)>>]

\* messages of both roles, each holding one Text block, have been sent
C8_Witness ==
  /\ Sent
  /\ Len(messages) = 2
  /\ messages[1].role = USER
  /\ messages[2].role = ASSISTANT
  /\ \A mi \in 1..2 :
       /\ Len(messages[mi].content) = 1
       /\ messages[mi].content[1].type = "text"
  /\ Len(openaiMessages) = 2

ThinkingRoundTrip(pos) ==
  LET items == EmittedFor(pos) IN
  /\ Len(items) = 1
  /\ items[1].type = "reasoning"
  /\ items[1].id = BlockAt(pos).signature
  /\ items[1].encrypted_content = BlockAt(pos).thinking
  /\ items[1].summary = <<>>
  /\ formatOpenAIResponse(items)
       = [threw |-> FALSE, blocks |-> <<BlockAt(pos)>>]

\* C9 as claimed: every Thinking block, of any string values, gives one
\* reasoning item (id = signature, encrypted_content = thinking, empty
\* summary) and formatOpenAIResponse of that item gives the block back.
C9_AnyThinkingRoundTrip ==
  Sent =>
    \A pos \in MixedBlocks :
      BlockAt(pos).type = "thinking" => ThinkingRoundTrip(pos)

\* C9: every Thinking block whose thinking is not the empty string gives
\* one reasoning item (id = signature, encrypted_content = thinking, empty
\* summary) and formatOpenAIResponse of that item gives the block back.
C9_ThinkingRoundTrip ==
  Sent =>
    \A pos \in MixedBlocks :
      (BlockAt(pos).type = "thinking" /\ BlockAt(pos).thinking # "") =>
        ThinkingRoundTrip(pos)

\* a Thinking block with a payload has been sent
C9_Witness ==
  /\ Sent
  /\ \E pos \in MixedBlocks :
       /\ BlockAt(pos).type = "thinking"
       /\ BlockAt(pos).thinking # ""
       /\ Len(EmittedFor(pos)) = 1

(***************************************************************************)
(* Claims about formatOpenAIResponse and generateMessage, under Spec.       *)
(***************************************************************************)
InvalidArguments == {NotJson, Truncated}

HasMalformedCall(items) ==
  \E i \in 1..Len(items) :
    /\ items[i].type = "function_call"
    /\ items[i].arguments \in InvalidArguments

\* the blocks of the result that lie between what the items before and the
\* items after item i of the response have given
ContributionOf(i) ==
  LET pre == formatOpenAIResponse(SubSeq(output, 1, i - 1)).blocks
      post == formatOpenAIResponse(SubSeq(output, i + 1, Len(output))).blocks
  IN SubSeq(contentBlocks, Len(pre) + 1, Len(contentBlocks) - Len(post))

\* C3: a response holding a function_call item whose arguments are not
\* valid JSON makes generateMessage throw: no block list is returned (so no
\* ToolUse block without input), and what is thrown is the parse error, not
\* BytebotAgentInterrupt.
C3_MalformedArgumentsThrow ==
  HasMalformedCall(output) =>
    /\ pc = "thrown"
    /\ contentBlocks = <<>>
    /\ error = "SyntaxError"
    /\ thrown = "SyntaxError"

\* a response whose second item is a function_call with arguments
\* "not json" has made generateMessage throw
C3_Witness ==
  /\ pc = "thrown"
  /\ Len(output) = 2
  /\ output[1].type = "message"
  /\ output[2].type = "function_call"
  /\ output[2].arguments = NotJson

\* C4: an item whose type tag formatOpenAIResponse has no case for raises
\* nothing (a throw comes from a malformed function_call of the response)
\* and gives exactly one Text block whose text parses back to the item,
\* between the blocks of the items before it and those of the items after.
C4_UnknownTagAsText ==
  \A i \in 1..Len(output) :
    output[i].type \notin HandledTags =>
      /\ pc = "thrown" => HasMalformedCall(output)
      /\ pc = "returned" =>
           LET pre == formatOpenAIResponse(SubSeq(output, 1, i - 1)).blocks
               post == formatOpenAIResponse(
                         SubSeq(output, i + 1, Len(output))).blocks
               mid == ContributionOf(i)
           IN
           /\ SubSeq(contentBlocks, 1, Len(pre)) = pre
           /\ SubSeq(contentBlocks, Len(contentBlocks) - Len(post) + 1,
                     Len(contentBlocks)) = post
           /\ Len(mid) = 1
           /\ mid[1].type = "text"
           /\ JSONparse(mid[1].text)
                = [ok |-> TRUE,
                   val |-> JObj(<< <<"type", JStr(output[i].type)>> >>
                                \o output[i].fields)]

\* an item of an unknown tag between two other items has been translated
C4_Witness ==
  /\ pc = "returned"
  /\ Len(output) = 3
  /\ output[1].type = "function_call"
  /\ output[2].type \notin HandledTags
  /\ output[3].type = "reasoning"
  /\ Len(contentBlocks) = 3

\* C5 as claimed: when formatOpenAIResponse does not raise, every item of
\* the response contributes at least one block, so the result is empty only
\* when the response is.
C5_NoItemDropped ==
  pc = "returned" =>
    /\ \A i \in 1..Len(output) : ContributionOf(i) # <<>>
    /\ contentBlocks = <<>> => output = <<>>

\* an item formatOpenAIResponse pushes nothing for
Silent(item) ==
  \/ /\ item.type \in {"file_search_call", "web_search_call",
                       "computer_call", "reasoning"}
     /\ ("encrypted_content" \in DOMAIN item => item.encrypted_content = "")
  \/ /\ item.type = "message"
     /\ \A j \in 1..Len(item.content) :
          /\ "text" \notin DOMAIN item.content[j]
          /\ "refusal" \notin DOMAIN item.content[j]

\* C5: when formatOpenAIResponse does not raise, every item contributes at
\* least one block, except an item of a reasoning-like tag without (or with
\* empty) encrypted_content and a message item none of whose content
\* entries has a text or refusal field; so the result is empty only when
\* every item of the response is one of these.
C5_OnlySilentItemsDropped ==
  pc = "returned" =>
    /\ \A i \in 1..Len(output) :
         ~Silent(output[i]) => ContributionOf(i) # <<>>
    /\ contentBlocks = <<>> => \A i \in 1..Len(output) : Silent(output[i])

\* a response of a refusal message and a reasoning item without payload
\* has been translated into the one block of the refusal
C5_Witness ==
  /\ pc = "returned"
  /\ \E i, j \in 1..Len(output) :
       /\ output[i].type = "message"
       /\ Len(output[i].content) = 1
       /\ "refusal" \in DOMAIN output[i].content[1]
       /\ output[j].type = "reasoning"
       /\ Silent(output[j])
       /\ ContributionOf(i) # <<>>
       /\ ContributionOf(j) = <<>>
  /\ Len(contentBlocks) = 1

\* C6: generateMessage throws BytebotAgentInterrupt exactly when what was
\* raised inside it is APIUserAbortError; any other failure is thrown as it
\* was raised; a call that returns throws nothing.
C6_InterruptOnlyOnAbort ==
  /\ thrown = "BytebotAgentInterrupt" <=> error = "APIUserAbortError"
  /\ error \notin {"none", "APIUserAbortError"} => thrown = error
  /\ pc = "thrown" <=> error # "none"
  /\ pc = "returned" => thrown = "none"

\* the caller has aborted a request that was in flight
C6_Witness ==
  /\ pc = "thrown"
  /\ error = "APIUserAbortError"
  /\ thrown = "BytebotAgentInterrupt"
  /\ openaiMessages # <<>>

(***************************************************************************)
(* Claim about getAvailableModels, under SpecModels.                        *)
(***************************************************************************)
Fallbacks == {"no_key", "no_models", "fetch_error"}

\* cachedModels is null, or a non-empty list of entries for ids of the
\* fetched list of the call that stored it, stamped with that call's start
CacheFromFetch ==
  \/ cachedModels.null
  \/ /\ cachedModels.list # <<>>
     /\ \A i \in 1..Len(cachedModels.list) :
          /\ cachedModels.list[i].provider = "openai"
          /\ \E j \in 1..Len(stored.fetched) :
               cachedModels.list[i].name = stored.fetched[j]
     /\ modelsCacheTime = stored.start
     /\ requests > 0

\* a step in which a call returns a fallback gives OPENAI_MODELS and leaves
\* the cache as it was
FallbackKeepsCache ==
  (ret' # ret /\ ret'.outcome \in Fallbacks) =>
    /\ ret'.value = OPENAI_MODELS
    /\ cachedModels' = cachedModels
    /\ modelsCacheTime' = modelsCacheTime

\* a step in which a call starts while the cache is non-null and younger
\* than CACHE_DURATION returns the cached list and issues no request
FreshCacheServes ==
  (started' # started /\ ~cachedModels.null
   /\ now - modelsCacheTime < CACHE_DURATION) =>
    /\ ret' = [n |-> started', outcome |-> "cached",
               value |-> cachedModels.list]
    /\ requests' = requests
    /\ inflight' = inflight
    /\ cachedModels' = cachedModels

\* C10: under any interleaving of getAvailableModels calls, cachedModels is
\* null or a non-empty list from a successful fetch with modelsCacheTime the
\* start time of the call that stored it; a fallback outcome returns
\* OPENAI_MODELS and leaves cachedModels and modelsCacheTime unchanged; a
\* call that starts while cachedModels is non-null and less than
\* CACHE_DURATION has passed since modelsCacheTime returns the cached list
\* without a request.
C10_ModelCache ==
  /\ []CacheFromFetch
  /\ [][FallbackKeepsCache /\ FreshCacheServes]_vars

\* a call has been served from the cache, later than the start of the call
\* that filled it, while another call's fetch is still in flight
C10_Witness ==
  /\ ret.outcome = "cached"
  /\ ret.value = cachedModels.list
  /\ now > modelsCacheTime
  /\ inflight # {}
  /\ requests = 2

====
